---- MODULE Spec2Model ----
(***************************************************************************)
(* A model of simple_scraper.py: main() runs the linear pipeline           *)
(*   check_if_valid_path -> get_target_html -> find_hotlinks ->            *)
(*   check_and_fix_protocol -> download_file for each link.                *)
(*                                                                         *)
(* A Python str is a sequence of one-character strings, so that split(),   *)
(* "in" and concatenation are computed as Python computes them.  The       *)
(* markup is represented by the sequence of href values that               *)
(* soup.find_all(href=True) yields for it, in document order.              *)
(***************************************************************************)
EXTENDS Integers, Sequences, FiniteSets, TLC

VARIABLES
    pc,                 \* position of main(): the call it makes next
    debug, silent, halt_on_error, dry_run, wait_time, target_url, exts,   \* parsed argv
    html,               \* hrefs of the fetched page, in document order
    found_hotlinks,     \* result of find_hotlinks
    links_to_download,  \* result of check_and_fix_protocol
    cur,                \* index of the link the for loop of main() is at
    disk,               \* file names present in the destination directory
    probe_present,      \* the probe file of check_if_valid_path is in the directory
    console,            \* kinds of lines download_file has printed
    log,                \* history of the run: <<event, index of the link or 0>>
    elapsed,            \* total time spent in sleep()
    exc                 \* the exception that ended the run, "none" if none did

vars == <<pc, debug, silent, halt_on_error, dry_run, wait_time, target_url, exts,
          html, found_hotlinks, links_to_download, cur, disk, probe_present,
          console, log, elapsed, exc>>

-----------------------------------------------------------------------------
(* Bounds of the model *)

\* longest href list of a page in the pipeline runs
MaxLinks == 3
\* largest --wait-time (the smallest is -1: int() accepts it)
MaxWait == 1
\* longest href list, and longest href, of the pages the filter is run on
MaxFilterHrefs == 2
MaxLinkLen == 2
\* longest --file-types value the filter is run on
MaxExtLen == 2
\* longest href list of the pages de-duplication is run on
MaxDedupHrefs == 4
\* longest link list, link and target URL the protocol repair is run on
MaxProtoLinks == 2
MaxProtoLen == 2
MaxTargetLen == 3

-----------------------------------------------------------------------------
(* Python str and list operations *)

\* c in s
Contains(s, c) == \E i \in 1..Len(s) : s[i] = c

\* s.find(c) + 1, for a c that occurs in s
FirstIndex(s, c) == CHOOSE i \in 1..Len(s) : s[i] = c /\ \A j \in 1..(i-1) : s[j] # c

\* s.split(c): the list of the pieces of s between the occurrences of c
RECURSIVE Split(_, _)
Split(s, c) ==
    IF ~Contains(s, c) THEN <<s>>
    ELSE LET i == FirstIndex(s, c)
         IN  <<SubSeq(s, 1, i - 1)>> \o Split(SubSeq(s, i + 1, Len(s)), c)

\* x in lst
InList(x, lst) == \E i \in 1..Len(lst) : lst[i] = x

\* all sequences over S of length at most n
SeqsUpTo(S, n) == UNION { [1..k -> S] : k \in 0..n }

-----------------------------------------------------------------------------
(* find_hotlinks *)

\* list(OrderedDict.fromkeys(hotlinks)): a key keeps the position of its first insertion
dedup_KeepAll(hotlinks) == hotlinks

RECURSIVE OrderedDictFromKeys(_)
OrderedDictFromKeys(hotlinks) ==
    IF hotlinks = <<>> THEN <<>>
    ELSE LET front == OrderedDictFromKeys(SubSeq(hotlinks, 1, Len(hotlinks) - 1))
             last  == hotlinks[Len(hotlinks)]
         IN  IF InList(last, front) THEN front ELSE Append(front, last)

\* the '*' of "exts is not '*'"
AllowAll == <<"*">>

\* link.split(".")[-1::][0]
link_ext_First(link) == Split(link, ".")[1]

link_ext(link) == LET parts == Split(link, ".") IN parts[Len(parts)]

\* the loop over deduped_hotlinks: append link when link_ext in exts
RECURSIVE FilterLinks(_, _)
FilterLinks(links, extlist) ==
    IF links = <<>> THEN <<>>
    ELSE LET rest == FilterLinks(Tail(links), extlist)
         IN  IF InList(link_ext(Head(links)), extlist) THEN <<Head(links)>> \o rest ELSE rest

\* find_hotlinks(html, exts): CPython keeps one object per one-character str, so
\* "exts is not '*'" decides as exts != '*' does
find_hotlinks(hrefs, e) ==
    LET deduped_hotlinks == OrderedDictFromKeys(hrefs)
    IN  IF e # AllowAll THEN FilterLinks(deduped_hotlinks, Split(e, ","))
        ELSE deduped_hotlinks

-----------------------------------------------------------------------------
(* check_and_fix_protocol *)

\* original_target.split(':')[0]
protocol_Whole(original_target) == original_target

protocol(original_target) == Split(original_target, ":")[1]

\* one iteration of the loop over urls
fix_link(proto, link) ==
    IF Contains(link, ":") THEN link ELSE proto \o <<":">> \o link

check_and_fix_protocol(original_target, urls) ==
    [i \in 1..Len(urls) |-> fix_link(protocol(original_target), urls[i])]

-----------------------------------------------------------------------------
(* check_if_valid_path *)

\* open(path + '/' + filename, 'x') creates the probe file, os.unlink removes it;
\* whatever either raises is caught and re-raised as SystemExit
check_if_valid_path_NoRaise(can_open, can_unlink) ==
    [ret |-> "True", probe |-> can_open /\ ~can_unlink]

check_if_valid_path(can_open, can_unlink) ==
    IF can_open /\ can_unlink THEN [ret |-> "True", probe |-> FALSE]
    ELSE [ret |-> "SystemExit", probe |-> can_open]

-----------------------------------------------------------------------------
(* download_file *)

\* url.split("/")[-1]
filename_of(url) == LET parts == Split(url, "/") IN parts[Len(parts)]

\* "if not dry_run:" guards urlretrieve and sleep
retrieves_Always(dry) == TRUE

retrieves(dry) == ~dry

\* "if halt_on_error:" in the except clause
halts_Never(halt) == FALSE

halts(halt) == halt

\* sleep(wait_time) raises ValueError for a negative length and otherwise
\* blocks for wait_time
sleep_NoWait(t, w) == [raised |-> w < 0, now |-> t]

sleep(t, w) == [raised |-> w < 0, now |-> IF w < 0 THEN t ELSE t + w]

\* conversion specifiers in the message of line 158 and of line 161
HaltMessageConversions == 0
FailedMessageConversions == 0

\* fmt % url with a str url: TypeError unless fmt holds exactly one conversion
PercentFormat(conversions) == IF conversions = 1 THEN "str" ELSE "TypeError"

\* the lines download_file prints, by kind
Printed(cond, kind) == IF cond THEN {kind} ELSE {}

\* exit status of the interpreter: SystemExit(str) and an uncaught exception give 1
ExitStatus == IF exc = "none" THEN 0 ELSE 1

-----------------------------------------------------------------------------
(* Inputs of the pipeline runs *)

Http == <<"h", "t", "t", "p">>
LinkA == <<"/", "/", "c", "/", "a", ".", "j", "p", "g">>
LinkB == <<"h", "t", "t", "p", "s", ":", "/", "/", "x", "/", "b", ".", "p", "n", "g">>
LinkC == <<"d", "/", "a", ".", "j", "p", "g">>
PagePool == {LinkA, LinkB, LinkC}
TargetPool == { Http \o <<":", "/", "/", "e", "/", "p">> }
ExtsPool == { AllowAll, <<"p", "d", "f", ",", "j", "p", "g">> }
WaitTimes == (0 - 1)..MaxWait

\* main() up to the first call: args parsed, nothing done yet
InitRun ==
    /\ pc = "check_if_valid_path"
    /\ html = <<>>
    /\ found_hotlinks = <<>>
    /\ links_to_download = <<>>
    /\ cur = 1
    /\ disk = {}
    /\ probe_present = FALSE
    /\ console = {}
    /\ log = <<>>
    /\ elapsed = 0
    /\ exc = "none"

Init ==
    /\ debug \in BOOLEAN
    /\ silent \in BOOLEAN
    /\ halt_on_error \in BOOLEAN
    /\ dry_run \in BOOLEAN
    /\ wait_time \in WaitTimes
    /\ target_url \in TargetPool
    /\ exts \in ExtsPool
    /\ InitRun

args == <<debug, silent, halt_on_error, dry_run, wait_time, target_url, exts>>

-----------------------------------------------------------------------------
(* main *)

\* check_if_valid_path(OUTPUT_DIR)
CheckIfValidPath ==
    /\ pc = "check_if_valid_path"
    /\ \E can_open \in BOOLEAN, can_unlink \in BOOLEAN :
         LET r == check_if_valid_path(can_open, can_unlink)
         IN  /\ probe_present' = r.probe
             /\ log' = Append(log, IF can_open /\ can_unlink
                                   THEN <<"valid_path", 0>> ELSE <<"invalid_path", 0>>)
             /\ IF r.ret = "True"
                THEN /\ pc' = "get_target_html"
                     /\ exc' = exc
                ELSE /\ pc' = "exited"
                     /\ exc' = "SystemExit"
    /\ UNCHANGED <<args, html, found_hotlinks, links_to_download, cur, disk,
                   console, elapsed>>

\* html = get_target_html(TARGET_URL)
GetTargetHtml ==
    /\ pc = "get_target_html"
    /\ \/ /\ html' \in SeqsUpTo(PagePool, MaxLinks)
          /\ pc' = "find_hotlinks"
          /\ log' = Append(log, <<"fetch", 0>>)
          /\ exc' = exc
       \/ /\ html' = html
          /\ pc' = "exited"
          /\ log' = Append(log, <<"fetch_failed", 0>>)
          /\ exc' = "SystemExit"
    /\ UNCHANGED <<args, found_hotlinks, links_to_download, cur, disk,
                   probe_present, console, elapsed>>

\* found_hotlinks = find_hotlinks(html, exts=EXT_LIST)
FindHotlinks ==
    /\ pc = "find_hotlinks"
    /\ found_hotlinks' = find_hotlinks(html, exts)
    /\ pc' = "check_and_fix_protocol"
    /\ UNCHANGED <<args, html, links_to_download, cur, disk, probe_present,
                   console, log, elapsed, exc>>

\* links_to_download = check_and_fix_protocol(TARGET_URL, found_hotlinks)
CheckAndFixProtocol ==
    /\ pc = "check_and_fix_protocol"
    /\ links_to_download' = check_and_fix_protocol(target_url, found_hotlinks)
    /\ pc' = "download_file"
    /\ UNCHANGED <<args, html, found_hotlinks, cur, disk, probe_present,
                   console, log, elapsed, exc>>

\* download_file(link, ...) up to urlretrieve; the whole call in a dry run
CallDownloadFile ==
    /\ pc = "download_file"
    /\ cur <= Len(links_to_download)
    /\ IF retrieves(dry_run)
       THEN /\ console' = console \cup Printed(~silent, "downloading")
            /\ log' = log \o << <<"call", cur>>, <<"urlretrieve", cur>> >>
            /\ pc' = "urlretrieve"
            /\ cur' = cur
       ELSE /\ console' = console \cup Printed(~silent, "downloading")
                            \cup Printed(~silent, "dry_run") \cup Printed(~silent, "done")
            /\ log' = log \o << <<"call", cur>>, <<"return_true", cur>> >>
            /\ pc' = "download_file"
            /\ cur' = cur + 1
    /\ UNCHANGED <<args, html, found_hotlinks, links_to_download, disk,
                   probe_present, elapsed, exc>>

\* res = urlretrieve(url, full_path): writes the file, or raises, having written
\* part of the file or nothing
Urlretrieve ==
    /\ pc = "urlretrieve"
    /\ LET full_path == filename_of(links_to_download[cur])
       IN  \/ /\ disk' = disk \cup {full_path}
              /\ log' = Append(log, <<"retrieved", cur>>)
              /\ pc' = "sleep"
           \/ /\ disk' \in {disk, disk \cup {full_path}}
              /\ log' = Append(log, <<"retrieve_failed", cur>>)
              /\ pc' = "except"
    /\ UNCHANGED <<args, html, found_hotlinks, links_to_download, cur,
                   probe_present, console, elapsed, exc>>

\* sleep(wait_time) and the rest of the try block, to "return True"
Sleep ==
    /\ pc = "sleep"
    /\ LET s == sleep(elapsed, wait_time)
       IN  /\ elapsed' = s.now
           /\ IF s.raised
              THEN /\ log' = Append(log, <<"sleep_failed", cur>>)
                   /\ pc' = "except"
                   /\ UNCHANGED <<console, cur>>
              ELSE /\ log' = log \o << <<"sleep", cur>>, <<"return_true", cur>> >>
                   /\ console' = console \cup Printed(debug, "res") \cup Printed(~silent, "done")
                   /\ pc' = "download_file"
                   /\ cur' = cur + 1
    /\ UNCHANGED <<args, html, found_hotlinks, links_to_download, disk,
                   probe_present, exc>>

\* the except clause of download_file
Except ==
    /\ pc = "except"
    /\ IF halts(halt_on_error)
       THEN /\ console' = console \cup Printed(debug, "ex")
            /\ exc' = IF PercentFormat(HaltMessageConversions) = "TypeError"
                      THEN "TypeError" ELSE "SystemExit"
            /\ log' = Append(log, <<"raise", cur>>)
            /\ pc' = "exited"
            /\ cur' = cur
       ELSE IF ~silent /\ PercentFormat(FailedMessageConversions) = "TypeError"
       THEN /\ console' = console \cup Printed(debug, "ex")
            /\ exc' = "TypeError"
            /\ log' = Append(log, <<"raise", cur>>)
            /\ pc' = "exited"
            /\ cur' = cur
       ELSE /\ console' = console \cup Printed(debug, "ex") \cup Printed(~silent, "failed")
            /\ exc' = exc
            /\ log' = Append(log, <<"return_false", cur>>)
            /\ pc' = "download_file"
            /\ cur' = cur + 1
    /\ UNCHANGED <<args, html, found_hotlinks, links_to_download, disk,
                   probe_present, elapsed>>

\* the for loop of main() is exhausted: main() returns
MainReturn ==
    /\ pc = "download_file"
    /\ cur > Len(links_to_download)
    /\ pc' = "exited"
    /\ log' = Append(log, <<"exit", 0>>)
    /\ UNCHANGED <<args, html, found_hotlinks, links_to_download, cur, disk,
                   probe_present, console, elapsed, exc>>

Next ==
    \/ CheckIfValidPath
    \/ GetTargetHtml
    \/ FindHotlinks
    \/ CheckAndFixProtocol
    \/ CallDownloadFile
    \/ Urlretrieve
    \/ Sleep
    \/ Except
    \/ MainReturn

Spec == Init /\ [][Next]_vars

-----------------------------------------------------------------------------
(* find_hotlinks and check_and_fix_protocol on all short inputs *)

\* main() after get_target_html returned, with default flags
InitFetched ==
    /\ debug = FALSE
    /\ silent = FALSE
    /\ halt_on_error = FALSE
    /\ dry_run = FALSE
    /\ wait_time = 0
    /\ found_hotlinks = <<>>
    /\ links_to_download = <<>>
    /\ cur = 1
    /\ disk = {}
    /\ probe_present = FALSE
    /\ console = {}
    /\ log = << <<"valid_path", 0>>, <<"fetch", 0>> >>
    /\ elapsed = 0
    /\ exc = "none"

FilterLinkChars == {"a", "."}
FilterExtChars == {"a", "A", ","}

InitFilter ==
    /\ InitFetched
    /\ pc = "find_hotlinks"
    /\ target_url \in TargetPool
    /\ exts \in SeqsUpTo(FilterExtChars, MaxExtLen) \cup {AllowAll}
    /\ html \in SeqsUpTo(SeqsUpTo(FilterLinkChars, MaxLinkLen), MaxFilterHrefs)

NextFilter == FindHotlinks

SpecFilter == InitFilter /\ [][NextFilter]_vars

InitDedup ==
    /\ InitFetched
    /\ pc = "find_hotlinks"
    /\ target_url \in TargetPool
    /\ exts \in ExtsPool
    /\ html \in SeqsUpTo(PagePool, MaxDedupHrefs)

NextDedup == FindHotlinks

SpecDedup == InitDedup /\ [][NextDedup]_vars

ProtoLinkChars == {"a", ":"}
TargetChars == {"h", ":"}

InitProtocol ==
    /\ target_url \in SeqsUpTo(TargetChars, MaxTargetLen)
    /\ exts = AllowAll
    /\ html \in SeqsUpTo(SeqsUpTo(ProtoLinkChars, MaxProtoLen), MaxProtoLinks)
    /\ debug = FALSE
    /\ silent = FALSE
    /\ halt_on_error = FALSE
    /\ dry_run = FALSE
    /\ wait_time = 0
    /\ found_hotlinks = find_hotlinks(html, exts)
    /\ links_to_download = <<>>
    /\ cur = 1
    /\ disk = {}
    /\ probe_present = FALSE
    /\ console = {}
    /\ log = << <<"valid_path", 0>>, <<"fetch", 0>> >>
    /\ elapsed = 0
    /\ exc = "none"
    /\ pc = "check_and_fix_protocol"

NextProtocol == CheckAndFixProtocol

SpecProtocol == InitProtocol /\ [][NextProtocol]_vars

-----------------------------------------------------------------------------
(* Vocabulary of the properties *)

Range(q) == { q[i] : i \in 1..Len(q) }

NoRepeats(q) == \A i, j \in 1..Len(q) : q[i] = q[j] => i = j

\* position of the first occurrence of x in q
FirstOccurrence(q, x) == CHOOSE i \in 1..Len(q) : q[i] = x /\ \A j \in 1..(i - 1) : q[j] # x

\* out lists members of src, none twice, in the order of their first occurrences in src
InFirstOccurrenceOrder(out, src) ==
    /\ NoRepeats(out)
    /\ Range(out) \subseteq Range(src)
    /\ \A i, j \in 1..Len(out) :
         i < j => FirstOccurrence(src, out[i]) < FirstOccurrence(src, out[j])

\* the text after the last '.' of link, the whole link when it has none
AfterLastDot(link) ==
    IF \A i \in 1..Len(link) : link[i] # "." THEN link
    ELSE LET k == CHOOSE i \in 1..Len(link) :
                      link[i] = "." /\ \A j \in (i + 1)..Len(link) : link[j] # "."
         IN  SubSeq(link, k + 1, Len(link))

\* the entries of a comma-separated list: its maximal comma-free stretches
AllowListEntries(e) ==
    { SubSeq(e, i, j) : <<i, j>> \in
        { w \in (1..(Len(e) + 1)) \X (0..Len(e)) :
            /\ w[2] >= w[1] - 1
            /\ \A k \in w[1]..w[2] : e[k] # ","
            /\ (w[1] = 1 \/ e[w[1] - 1] = ",")
            /\ (w[2] = Len(e) \/ e[w[2] + 1] = ",") } }

\* the text of t before its first ':', the whole of t when it has none
SchemeOf(t) ==
    CHOOSE p \in { SubSeq(t, 1, n) : n \in 0..Len(t) } :
        /\ \A i \in 1..Len(p) : p[i] # ":"
        /\ (Len(p) = Len(t) \/ t[Len(p) + 1] = ":")

AfterFind == pc = "check_and_fix_protocol"
AfterFix == pc = "download_file" /\ cur = 1 /\ Len(log) = 2

-----------------------------------------------------------------------------
(* Properties *)

\* C5: under an allow-list other than '*', find_hotlinks keeps a link of the page
\* exactly when the text after its last '.' (the whole link when it has no '.') is,
\* case-sensitively, an entry of the comma-split allow-list, and keeps the kept
\* links in their order; under '*' every link of the page is kept, in that order.
C5_FilterCorrect ==
    AfterFind =>
        /\ InFirstOccurrenceOrder(found_hotlinks, html)
        /\ \A link \in Range(html) :
             link \in Range(found_hotlinks)
                <=> (exts = AllowAll \/ AfterLastDot(link) \in AllowListEntries(exts))

C5_Witness ==
    /\ AfterFind
    /\ exts # AllowAll
    /\ Len(html) = 2
    /\ Len(found_hotlinks) = 1
    /\ exts = <<"A", ",">>
    /\ html = << <<".", "a">>, <<"a", ".">> >>
    /\ found_hotlinks = << <<"a", ".">> >>

\* C6: the list find_hotlinks returns holds no string twice, and its links stand
\* in the order of their first occurrences in the page; under '*' it holds every
\* link of the page.
C6_Dedup ==
    AfterFind =>
        /\ NoRepeats(found_hotlinks)
        /\ \A i, j \in 1..Len(found_hotlinks) :
             i < j => FirstOccurrence(html, found_hotlinks[i])
                          < FirstOccurrence(html, found_hotlinks[j])
        /\ (exts = AllowAll => Range(found_hotlinks) = Range(html))

C6_Witness ==
    /\ AfterFind
    /\ exts = AllowAll
    /\ html = <<LinkA, LinkB, LinkA, LinkC>>
    /\ found_hotlinks = <<LinkA, LinkB, LinkC>>

\* C7: check_and_fix_protocol returns as many links as it is given, in the same
\* order: a link without ':' becomes the target's scheme, ':' and the link; a link
\* with ':' is returned as it is; every returned link contains ':'.
C7_SchemeRepair ==
    AfterFix =>
        /\ Len(links_to_download) = Len(found_hotlinks)
        /\ \A i \in 1..Len(found_hotlinks) :
             /\ Contains(found_hotlinks[i], ":") => links_to_download[i] = found_hotlinks[i]
             /\ ~Contains(found_hotlinks[i], ":") =>
                    links_to_download[i] = SchemeOf(target_url) \o <<":">> \o found_hotlinks[i]
             /\ Contains(links_to_download[i], ":")

C7_Witness ==
    /\ AfterFix
    /\ target_url = <<"h", ":", "h">>
    /\ found_hotlinks = << <<"a", "a">>, <<"a", ":">> >>
    /\ links_to_download = << <<"h", ":", "a", "a">>, <<"a", ":">> >>

-----------------------------------------------------------------------------
(* Vocabulary of the properties of a run *)

Has(ev, k) == \E p \in 1..Len(log) : log[p] = <<ev, k>>

Happened(ev) == \E p \in 1..Len(log) : log[p][1] = ev

LinkIndexes == 1..Len(links_to_download)

\* download_file was entered for link k
Attempted(k) == Has("call", k)

\* the download of link k failed: the except clause of download_file was entered
Failed(k) == Has("retrieve_failed", k) \/ Has("sleep_failed", k)

\* the calls of download_file so far are those for links 1..n, in this order
AttemptedInOrder(n) ==
    LET calls == { p \in 1..Len(log) : log[p][1] = "call" }
    IN  /\ \A k \in LinkIndexes : Attempted(k) <=> k <= n
        /\ \A p, q \in calls : p < q => log[p][2] < log[q][2]

\* operations on the network: the page fetch and the file retrievals
NetworkEvents == {"fetch", "fetch_failed", "urlretrieve"}

\* the for loop of main() has been entered
BatchBegun == Happened("call") \/ Happened("exit")

\* retrievals begun and neither finished nor failed
InFlight ==
    Cardinality({ k \in LinkIndexes :
        Has("urlretrieve", k) /\ ~Has("retrieved", k) /\ ~Has("retrieve_failed", k) })

-----------------------------------------------------------------------------
(* Properties of a run *)

\* C1: with halt-on-error off, whatever downloads fail and whatever the silent,
\* debug and dry-run flags are, a run that entered the download loop ends with
\* download_file called for every link, in order, and with exit status 0.
C1_FailureNeverAborts ==
    (~halt_on_error /\ BatchBegun /\ pc = "exited") =>
        /\ AttemptedInOrder(Len(links_to_download))
        /\ ExitStatus = 0

\* C2: with halt-on-error on, the first failed download ends the run: the links
\* before it were attempted in order, the files of those that succeeded are in
\* the directory, no later link is attempted, and the exit status is not 0.
C2_HaltOnFirstFailure ==
    halt_on_error =>
        \A k \in LinkIndexes : Failed(k) =>
            /\ AttemptedInOrder(k)
            /\ \A j \in 1..(k - 1) :
                 /\ Has("return_true", j)
                 /\ (~dry_run => filename_of(links_to_download[j]) \in disk)
            /\ pc \in {"except", "exited"}
            /\ cur = k
            /\ (pc = "exited" => ExitStatus # 0 /\ log[Len(log)] = <<"raise", k>>)

C2_Witness ==
    /\ halt_on_error
    /\ pc = "exited"
    /\ Len(links_to_download) = 3
    /\ Has("return_true", 1)
    /\ Has("retrieve_failed", 2)
    /\ filename_of(links_to_download[1]) \in disk
    /\ ExitStatus = 1

\* C3: when the check of the destination directory fails the run ends with a
\* non-zero exit status and without any network operation, and every network
\* operation of a run comes after a successful check of the directory.
C3_ValidPathBeforeNetwork ==
    /\ Has("invalid_path", 0) =>
          /\ pc = "exited"
          /\ ExitStatus # 0
          /\ \A p \in 1..Len(log) : log[p][1] \notin NetworkEvents
    /\ \A p \in 1..Len(log) : log[p][1] \in NetworkEvents =>
          \E q \in 1..(p - 1) : log[q] = <<"valid_path", 0>>

C3_Witness ==
    /\ Has("invalid_path", 0)
    /\ pc = "exited"
    /\ exc = "SystemExit"

\* C4: in a dry run download_file retrieves nothing, writes no file and does not
\* sleep, and still returns True for every link it is called for (printing the
\* dry-run notice unless silent): the directory is as it was before the loop.
C4_DryRun ==
    dry_run =>
        /\ ~Happened("urlretrieve")
        /\ ~Happened("sleep")
        /\ elapsed = 0
        /\ disk = {}
        /\ \A k \in LinkIndexes : Attempted(k) =>
             /\ Has("return_true", k)
             /\ (~silent => "dry_run" \in console)
        /\ (pc = "exited" /\ BatchBegun => AttemptedInOrder(Len(links_to_download)))

C4_Witness ==
    /\ dry_run
    /\ pc = "exited"
    /\ Len(links_to_download) = 3
    /\ Has("return_true", 3)
    /\ "dry_run" \in console

\* C8: with silent on download_file prints nothing for any link, whatever the
\* debug, halt-on-error and dry-run flags are, and a failed download still
\* makes it return False.
C8_SilentPrintsNothing ==
    silent =>
        /\ console = {}
        /\ \A k \in LinkIndexes :
             (Failed(k) /\ ~halt_on_error /\ (cur > k \/ pc = "exited"))
                => Has("return_false", k)

\* C9: once check_if_valid_path has finished, by returning or by SystemExit, its
\* probe file is not in the directory, and it has returned only if the probe
\* file was created and removed.
C9_ProbeRemoved ==
    pc # "check_if_valid_path" =>
        /\ ~probe_present
        /\ (pc = "get_target_html" \/ Len(log) > 1 => log[1] = <<"valid_path", 0>>)

====
